---- MODULE Spec2Model ----
(***************************************************************************)
(* Bestiary UI mutation layer (ui/src/apollo/mutations.js): eight wrappers  *)
(* that each hand one GraphQL mutation to the shared Apollo client and      *)
(* return the pending result, together with the GraphQL backend that the    *)
(* documents address.                                                       *)
(***************************************************************************)
EXTENDS Integers, Sequences, FiniteSets, TLC

\* ------------------------------------------------------------------ bounds
\* Wrapper invocations in one behaviour.
MaxCalls == 2

\* ------------------------------------------------------- JavaScript values
JSNull == [type |-> "null"]
JSUndefined == [type |-> "undefined"]
JSString(s) == [type |-> "string", value |-> s]
JSNumber(n) == [type |-> "number", value |-> n]
JSObject(f) == [type |-> "object", fields |-> f]

\* Reading a property of null or undefined raises a TypeError.
ThrowsOnRead(v) == v.type \in {"null", "undefined"}

\* obj.key: a missing property, or a property of a primitive, reads undefined.
GetProp(v, key) ==
  IF v.type = "object" /\ key \in DOMAIN v.fields THEN v.fields[key] ELSE JSUndefined

\* ------------------------------------------------------- GraphQL documents
ADD_PROJECT ==
  [operation |-> "addProject",
   variableTypes |-> [ecosystemId |-> "ID", name |-> "String",
                      title |-> "String", parentId |-> "ID"],
   field |-> "addProject",
   arguments |-> [ecosystemId |-> "ecosystemId", name |-> "name",
                  title |-> "title", parentId |-> "parentId"],
   selection |-> [project |-> {"id", "name"}]]

DELETE_PROJECT ==
  [operation |-> "deleteProject",
   variableTypes |-> [id |-> "ID"],
   field |-> "deleteProject",
   arguments |-> [id |-> "id"],
   selection |-> [project |-> {"id"}]]

MOVE_PROJECT ==
  [operation |-> "moveProject",
   variableTypes |-> [fromProjectId |-> "ID", toProjectId |-> "ID"],
   field |-> "moveProject",
   arguments |-> [fromProjectId |-> "fromProjectId", toProjectId |-> "toProjectId"],
   selection |-> [project |-> {"id", "name"}]]

UPDATE_PROJECT ==
  [operation |-> "updateProject",
   variableTypes |-> [data |-> "ProjectInputType", id |-> "ID"],
   field |-> "updateProject",
   arguments |-> [data |-> "data", id |-> "id"],
   selection |-> [project |-> {"id", "name"}]]

ADD_ECOSYSTEM ==
  [operation |-> "addEcosystem",
   variableTypes |-> [name |-> "String!", title |-> "String", description |-> "String"],
   field |-> "addEcosystem",
   arguments |-> [name |-> "name", title |-> "title", description |-> "description"],
   selection |-> [ecosystem |-> {"id"}]]

UPDATE_ECOSYSTEM ==
  [operation |-> "updateEcosystem",
   variableTypes |-> [data |-> "EcosystemInputType", id |-> "ID"],
   field |-> "updateEcosystem",
   arguments |-> [data |-> "data", id |-> "id"],
   selection |-> [ecosystem |-> {"id"}]]

DELETE_ECOSYSTEM ==
  [operation |-> "deleteEcosystem",
   variableTypes |-> [id |-> "ID!"],
   field |-> "deleteEcosystem",
   arguments |-> [id |-> "id"],
   selection |-> [ecosystem |-> {"id"}]]

TOKEN_AUTH ==
  [operation |-> "tokenAuth",
   variableTypes |-> [username |-> "String!", password |-> "String!"],
   field |-> "tokenAuth",
   arguments |-> [username |-> "username", password |-> "password"],
   selection |-> [token |-> {}]]

\* ------------------------------------------------------------------- state
VARIABLES
  calls,       \* the wrapper invocations so far, in order
  requests,    \* the options objects apollo.mutate received, in order
  promises,    \* promises[r]: the state of the promise apollo.mutate returned for requests[r]
  ecosystems,  \* backend store: the ecosystems
  projects,    \* backend store: the projects
  nextId       \* backend store: the next primary key

vars == <<calls, requests, promises, ecosystems, projects, nextId>>

Pending == [status |-> "pending"]
Fulfilled(v) == [status |-> "fulfilled", value |-> v]
Rejected(e) == [status |-> "rejected", reason |-> e]

\* ---------------------------------------------------------------- wrappers
\* What one run of a wrapper does: the apollo.mutate calls it makes, in order,
\* which of their promises it returns (0: none), whether it raised instead, and
\* the caller's arguments as the run leaves them.
Threw(args) ==
  [threw |-> TRUE, mutate |-> <<>>, returned |-> 0, args |-> args]

\* Mutant: the wrapper forgets to return the response.
MutateAndDrop(args, options) ==
  [threw |-> FALSE, mutate |-> <<options>>, returned |-> 0, args |-> args]

MutateAndReturn(args, options) ==
  [threw |-> FALSE, mutate |-> <<options>>, returned |-> 1, args |-> args]

\* Mutant: ecosystemId and parentId are taken from each other's field.
addProject_swapsIds(data) ==
  IF ThrowsOnRead(data) THEN Threw(<<data>>)
  ELSE MutateAndReturn(<<data>>,
         [mutation |-> ADD_PROJECT,
          variables |-> [ecosystemId |-> GetProp(data, "parentId"),
                         name |-> GetProp(data, "name"),
                         title |-> GetProp(data, "title"),
                         parentId |-> GetProp(data, "ecosystemId")]])

addProject(data) ==
  IF ThrowsOnRead(data) THEN Threw(<<data>>)
  ELSE MutateAndReturn(<<data>>,
         [mutation |-> ADD_PROJECT,
          variables |-> [ecosystemId |-> GetProp(data, "ecosystemId"),
                         name |-> GetProp(data, "name"),
                         title |-> GetProp(data, "title"),
                         parentId |-> GetProp(data, "parentId")]])

\* Mutant: what is sent depends on the requests made before.
deleteProject_remembers(id) ==
  MutateAndReturn(<<id>>,
    [mutation |-> DELETE_PROJECT,
     variables |-> [id |-> IF Len(requests) = 0 THEN id ELSE JSNull]])

deleteProject(id) ==
  MutateAndReturn(<<id>>, [mutation |-> DELETE_PROJECT, variables |-> [id |-> id]])

\* Mutant: the two project ids are bound to each other's variable.
moveProject_swapped(fromProjectId, toProjectId) ==
  MutateAndReturn(<<fromProjectId, toProjectId>>,
    [mutation |-> MOVE_PROJECT,
     variables |-> [fromProjectId |-> toProjectId, toProjectId |-> fromProjectId]])

moveProject(fromProjectId, toProjectId) ==
  MutateAndReturn(<<fromProjectId, toProjectId>>,
    [mutation |-> MOVE_PROJECT,
     variables |-> [fromProjectId |-> fromProjectId, toProjectId |-> toProjectId]])

\* Mutant: the mutation is handed to the client a second time.
updateProject_twice(data, id) ==
  LET options == [mutation |-> UPDATE_PROJECT, variables |-> [data |-> data, id |-> id]]
  IN [threw |-> FALSE, mutate |-> <<options, options>>, returned |-> 2,
      args |-> <<data, id>>]

updateProject(data, id) ==
  MutateAndReturn(<<data, id>>,
    [mutation |-> UPDATE_PROJECT, variables |-> [data |-> data, id |-> id]])

\* Mutant: the required name is checked before anything is sent.
addEcosystem_validates(data) ==
  IF ThrowsOnRead(data) \/ GetProp(data, "name").type \in {"null", "undefined"}
  THEN Threw(<<data>>)
  ELSE MutateAndReturn(<<data>>,
         [mutation |-> ADD_ECOSYSTEM,
          variables |-> [name |-> GetProp(data, "name"),
                         title |-> GetProp(data, "title"),
                         description |-> GetProp(data, "description")]])

addEcosystem(data) ==
  IF ThrowsOnRead(data) THEN Threw(<<data>>)
  ELSE MutateAndReturn(<<data>>,
         [mutation |-> ADD_ECOSYSTEM,
          variables |-> [name |-> GetProp(data, "name"),
                         title |-> GetProp(data, "title"),
                         description |-> GetProp(data, "description")]])

\* Mutant: the id is written into the caller's data object.
updateEcosystem_writesData(data, id) ==
  LET data2 == IF data.type = "object"
               THEN JSObject([k \in DOMAIN data.fields \cup {"id"} |->
                                IF k = "id" THEN id ELSE data.fields[k]])
               ELSE data
  IN MutateAndReturn(<<data2, id>>,
       [mutation |-> UPDATE_ECOSYSTEM, variables |-> [data |-> data2, id |-> id]])

updateEcosystem(data, id) ==
  MutateAndReturn(<<data, id>>,
    [mutation |-> UPDATE_ECOSYSTEM, variables |-> [data |-> data, id |-> id]])

\* Mutant: the wrapper sends the project deletion.
deleteEcosystem_wrongDocument(id) ==
  MutateAndReturn(<<id>>, [mutation |-> DELETE_PROJECT, variables |-> [id |-> id]])

deleteEcosystem(id) ==
  MutateAndReturn(<<id>>, [mutation |-> DELETE_ECOSYSTEM, variables |-> [id |-> id]])

\* Mutant: username and password are bound to each other's variable.
tokenAuth_swapped(username, password) ==
  MutateAndReturn(<<username, password>>,
    [mutation |-> TOKEN_AUTH,
     variables |-> [username |-> password, password |-> username]])

tokenAuth(username, password) ==
  MutateAndReturn(<<username, password>>,
    [mutation |-> TOKEN_AUTH,
     variables |-> [username |-> username, password |-> password]])

\* A wrapper runs to completion in one step of the single-threaded UI: every
\* apollo.mutate call it makes is handed to the client then, with a pending promise.
Invoke(op, args, run) ==
  /\ Len(calls) < MaxCalls
  /\ requests' = requests \o run.mutate
  /\ promises' = promises \o [i \in 1..Len(run.mutate) |-> Pending]
  /\ calls' = Append(calls,
       [op |-> op, args |-> args, argsAfter |-> run.args, threw |-> run.threw,
        request |-> IF Len(run.mutate) = 0 THEN 0 ELSE Len(requests) + 1,
        issued |-> Len(run.mutate),
        returned |-> IF run.returned = 0 THEN 0 ELSE Len(requests) + run.returned])
  /\ UNCHANGED <<ecosystems, projects, nextId>>

AddProject(data) == Invoke("addProject", <<data>>, addProject(data))
DeleteProject(id) == Invoke("deleteProject", <<id>>, deleteProject(id))
MoveProject(from, to) == Invoke("moveProject", <<from, to>>, moveProject(from, to))
UpdateProject(data, id) == Invoke("updateProject", <<data, id>>, updateProject(data, id))
AddEcosystem(data) == Invoke("addEcosystem", <<data>>, addEcosystem(data))
UpdateEcosystem(data, id) == Invoke("updateEcosystem", <<data, id>>, updateEcosystem(data, id))
DeleteEcosystem(id) == Invoke("deleteEcosystem", <<id>>, deleteEcosystem(id))
TokenAuth(username, password) ==
  Invoke("tokenAuth", <<username, password>>, tokenAuth(username, password))

\* What the caller of calls[c] holds: the exception the wrapper raised, or the
\* state of the promise it was handed back.
Observed(c) ==
  IF calls[c].threw THEN [status |-> "threw", error |-> "TypeError"]
  ELSE IF calls[c].returned = 0 THEN [status |-> "undefined"]
  ELSE promises[calls[c].returned]

\* ----------------------------------------------------------------- backend
\* A variable that is null, or undefined (dropped when the request is serialised).
IsAbsent(v) == v.type \in {"null", "undefined"}

Required(type) == type \in {"String!", "ID!"}

InputFields(type) ==
  IF type = "ProjectInputType" THEN {"name", "title"} ELSE {"name", "title", "description"}

\* GraphQL coercion of a variable to its declared type: [ok, value].
CoerceVariable(type, v) ==
  IF IsAbsent(v) THEN [ok |-> ~Required(type), value |-> JSNull]
  ELSE IF type \in {"String", "String!"} THEN [ok |-> v.type = "string", value |-> v]
  ELSE IF type \in {"ID", "ID!"} THEN
    IF v.type = "number" THEN [ok |-> TRUE, value |-> JSString(ToString(v.value))]
    ELSE [ok |-> v.type = "string", value |-> v]
  ELSE [ok |-> /\ v.type = "object"
               /\ DOMAIN v.fields \subseteq InputFields(type)
               /\ \A k \in DOMAIN v.fields :
                    IsAbsent(v.fields[k]) \/ v.fields[k].type = "string",
        value |-> v]

\* The field's arguments, each read from the variable the document binds it to.
Arguments(options) ==
  LET doc == options.mutation
      var(a) == doc.arguments[a]
      given(a) == IF var(a) \in DOMAIN options.variables
                  THEN options.variables[var(a)] ELSE JSUndefined
  IN [a \in DOMAIN doc.arguments |-> CoerceVariable(doc.variableTypes[var(a)], given(a))]

Store == [ecosystems |-> ecosystems, projects |-> projects, nextId |-> nextId]

Ok(S, payload) == [store |-> S, outcome |-> Fulfilled(payload)]
Fail(S, error) == [store |-> S, outcome |-> Rejected(error)]

EcosystemExists(S, id) == \E e \in S.ecosystems : e.id = id
ProjectExists(S, id) == \E p \in S.projects : p.id = id
TheProject(S, id) == CHOOSE p \in S.projects : p.id = id

\* Whether project id lies in the subtree rooted at project root.
RECURSIVE InSubtree(_, _, _, _)
InSubtree(S, root, id, fuel) ==
  \/ id = root
  \/ /\ fuel > 0
     /\ ProjectExists(S, id)
     /\ ~IsAbsent(TheProject(S, id).parentId)
     /\ InSubtree(S, root, TheProject(S, id).parentId, fuel - 1)

Subtree(S, root) ==
  {p \in S.projects : InSubtree(S, root, p.id, Cardinality(S.projects))}

ResolveAddProject(S, a) ==
  IF ~EcosystemExists(S, a.ecosystemId) THEN Fail(S, "not found")
  ELSE IF ~IsAbsent(a.parentId) /\ ~ProjectExists(S, a.parentId) THEN Fail(S, "not found")
  ELSE IF ~IsAbsent(a.parentId) /\ TheProject(S, a.parentId).ecosystemId # a.ecosystemId
    THEN Fail(S, "validation failure")
  ELSE LET p == [id |-> JSString(ToString(S.nextId.project)), name |-> a.name,
                 title |-> a.title, parentId |-> a.parentId,
                 ecosystemId |-> a.ecosystemId]
       IN Ok([S EXCEPT !.projects = @ \cup {p}, !.nextId.project = @ + 1],
             [project |-> [id |-> p.id, name |-> p.name]])

\* The spec leaves open what becomes of the subprojects of a deleted project:
\* they go with it ("cascade") or become roots ("detach").
ResolveDeleteProject(S, a, policy) ==
  IF ~ProjectExists(S, a.id) THEN Fail(S, "not found")
  ELSE LET gone == IF policy = "cascade" THEN Subtree(S, a.id) ELSE {TheProject(S, a.id)}
           kept == {IF p.parentId = a.id THEN [p EXCEPT !.parentId = JSNull] ELSE p :
                      p \in S.projects \ gone}
       IN Ok([S EXCEPT !.projects = kept], [project |-> [id |-> a.id]])

\* Mutant: the target's ecosystem and position in the tree are not checked.
ResolveMoveProject_unchecked(S, a) ==
  IF ~ProjectExists(S, a.fromProjectId) THEN Fail(S, "not found")
  ELSE IF ~IsAbsent(a.toProjectId) /\ ~ProjectExists(S, a.toProjectId)
    THEN Fail(S, "not found")
  ELSE LET from == TheProject(S, a.fromProjectId) IN
    Ok([S EXCEPT !.projects =
          (@ \ {from}) \cup {[from EXCEPT !.parentId = a.toProjectId]}],
       [project |-> [id |-> from.id, name |-> from.name]])

ResolveMoveProject(S, a) ==
  IF ~ProjectExists(S, a.fromProjectId) THEN Fail(S, "not found")
  ELSE IF ~IsAbsent(a.toProjectId) /\ ~ProjectExists(S, a.toProjectId)
    THEN Fail(S, "not found")
  ELSE LET from == TheProject(S, a.fromProjectId) IN
    IF /\ ~IsAbsent(a.toProjectId)
       /\ \/ TheProject(S, a.toProjectId).ecosystemId # from.ecosystemId
          \/ InSubtree(S, from.id, a.toProjectId, Cardinality(S.projects))
    THEN Fail(S, "validation failure")
    ELSE Ok([S EXCEPT !.projects =
               (@ \ {from}) \cup {[from EXCEPT !.parentId = a.toProjectId]}],
            [project |-> [id |-> from.id, name |-> from.name]])

\* rec with the fields that data gives a value for replaced by data's.
Updated(rec, data) ==
  [k \in DOMAIN rec |->
     IF ~IsAbsent(data) /\ k \in DOMAIN data.fields /\ ~IsAbsent(data.fields[k])
     THEN data.fields[k] ELSE rec[k]]

ResolveUpdateProject(S, a) ==
  IF ~ProjectExists(S, a.id) THEN Fail(S, "not found")
  ELSE LET old == TheProject(S, a.id)
           new == Updated(old, a.data)
       IN Ok([S EXCEPT !.projects = (@ \ {old}) \cup {new}],
             [project |-> [id |-> new.id, name |-> new.name]])

ResolveAddEcosystem(S, a) ==
  IF \E e \in S.ecosystems : e.name = a.name THEN Fail(S, "validation failure")
  ELSE LET e == [id |-> JSString(ToString(S.nextId.ecosystem)), name |-> a.name,
                 title |-> a.title, description |-> a.description]
       IN Ok([S EXCEPT !.ecosystems = @ \cup {e}, !.nextId.ecosystem = @ + 1],
             [ecosystem |-> [id |-> e.id]])

ResolveUpdateEcosystem(S, a) ==
  IF ~EcosystemExists(S, a.id) THEN Fail(S, "not found")
  ELSE LET old == CHOOSE e \in S.ecosystems : e.id = a.id
           new == Updated(old, a.data)
       IN IF \E e \in S.ecosystems \ {old} : e.name = new.name
          THEN Fail(S, "validation failure")
          ELSE Ok([S EXCEPT !.ecosystems = (@ \ {old}) \cup {new}],
                  [ecosystem |-> [id |-> new.id]])

\* Deleting an ecosystem cascades to its projects.
ResolveDeleteEcosystem(S, a) ==
  IF ~EcosystemExists(S, a.id) THEN Fail(S, "not found")
  ELSE Ok([S EXCEPT !.ecosystems = {e \in @ : e.id # a.id},
                    !.projects = {p \in @ : p.ecosystemId # a.id}],
          [ecosystem |-> [id |-> a.id]])

Users == {[username |-> JSString("alice"), password |-> JSString("secret")]}

ValidCredentials(username, password) ==
  [username |-> username, password |-> password] \in Users

\* A signed token: header, payload (the username) and signature.
Jwt(username) == JSString(<<"header", username.value, "signature">>)

ResolveTokenAuth(S, a) ==
  IF ValidCredentials(a.username, a.password)
  THEN Ok(S, [token |-> Jwt(a.username)])
  ELSE Fail(S, "auth failure")

\* The backend's answer to one request: the variables are coerced to their
\* declared types, then the field the document names is resolved.
Resolve(S, options, policy) ==
  LET coerced == Arguments(options)
      a == [k \in DOMAIN coerced |-> coerced[k].value]
      field == options.mutation.field
  IN IF \E k \in DOMAIN coerced : ~coerced[k].ok THEN Fail(S, "validation failure")
     ELSE CASE field = "addProject" -> ResolveAddProject(S, a)
            [] field = "deleteProject" -> ResolveDeleteProject(S, a, policy)
            [] field = "moveProject" -> ResolveMoveProject(S, a)
            [] field = "updateProject" -> ResolveUpdateProject(S, a)
            [] field = "addEcosystem" -> ResolveAddEcosystem(S, a)
            [] field = "updateEcosystem" -> ResolveUpdateEcosystem(S, a)
            [] field = "deleteEcosystem" -> ResolveDeleteEcosystem(S, a)
            [] field = "tokenAuth" -> ResolveTokenAuth(S, a)

\* The backend answers pending request r; its promise settles with the answer.
Respond(r, policy) ==
  /\ r \in 1..Len(requests)
  /\ promises[r] = Pending
  /\ LET res == Resolve(Store, requests[r], policy)
     IN /\ promises' = [promises EXCEPT ![r] = res.outcome]
        /\ ecosystems' = res.store.ecosystems
        /\ projects' = res.store.projects
        /\ nextId' = res.store.nextId
  /\ UNCHANGED <<calls, requests>>

\* The backend turns away pending request r as unauthenticated (every mutation
\* but tokenAuth needs a valid bearer token, which the client attaches or not).
Unauthenticated(r) ==
  /\ r \in 1..Len(requests)
  /\ promises[r] = Pending
  /\ requests[r].mutation.field # "tokenAuth"
  /\ promises' = [promises EXCEPT ![r] = Rejected("auth failure")]
  /\ UNCHANGED <<calls, requests, ecosystems, projects, nextId>>

\* ------------------------------------------------------------------ inputs
Str(x) == JSString(x)

ProjectForm ==
  JSObject([ecosystemId |-> Str("1"), name |-> Str("n"), title |-> Str("t"),
            parentId |-> Str("2"), description |-> Str("d"), extra |-> Str("x")])

DataInputs ==
  {ProjectForm,
   JSObject([ecosystemId |-> Str("2"), name |-> Str("m"), parentId |-> Str("1")]),
   JSNull}

EcosystemForm ==
  JSObject([name |-> Str("e3"), title |-> Str("t"), description |-> Str("d"), extra |-> Str("x")])

EcosystemInputs ==
  {EcosystemForm, JSObject([title |-> JSNumber(7)]), JSUndefined}

MoveInputs ==
  {<<Str("2"), JSNull>>, <<Str("1"), Str("2")>>, <<Str("1"), Str("3")>>, <<Str("2"), Str("4")>>}

UpdateProjectInputs == {<<JSObject([name |-> Str("m")]), Str("2")>>}
UpdateEcosystemInputs == {<<JSObject([name |-> Str("e9"), title |-> Str("u")]), Str("1")>>,
                          <<JSNull, Str("2")>>}
DeleteProjectInputs == {Str("1")}
DeleteEcosystemInputs == {Str("1"), JSUndefined}
Credentials == {<<Str("alice"), Str("secret")>>, <<Str("alice"), Str("wrong")>>,
                <<JSNumber(7), JSUndefined>>}

\* ----------------------------------------------------------- specification
Init ==
  /\ calls = <<>>
  /\ requests = <<>>
  /\ promises = <<>>
  /\ ecosystems = {[id |-> Str("1"), name |-> Str("e1"), title |-> Str("E1"), description |-> JSNull],
                   [id |-> Str("2"), name |-> Str("e2"), title |-> JSNull, description |-> JSNull]}
  /\ projects = {[id |-> Str("1"), name |-> Str("p1"), title |-> Str("P1"),
                  parentId |-> JSNull, ecosystemId |-> Str("1")],
                 [id |-> Str("2"), name |-> Str("p2"), title |-> JSNull,
                  parentId |-> Str("1"), ecosystemId |-> Str("1")],
                 [id |-> Str("3"), name |-> Str("p3"), title |-> JSNull,
                  parentId |-> JSNull, ecosystemId |-> Str("1")],
                 [id |-> Str("4"), name |-> Str("p4"), title |-> JSNull,
                  parentId |-> JSNull, ecosystemId |-> Str("2")]}
  /\ nextId = [project |-> 5, ecosystem |-> 3]

Next ==
  \/ \E data \in DataInputs : AddProject(data)
  \/ \E id \in DeleteProjectInputs : DeleteProject(id)
  \/ \E m \in MoveInputs : MoveProject(m[1], m[2])
  \/ \E u \in UpdateProjectInputs : UpdateProject(u[1], u[2])
  \/ \E data \in EcosystemInputs : AddEcosystem(data)
  \/ \E u \in UpdateEcosystemInputs : UpdateEcosystem(u[1], u[2])
  \/ \E id \in DeleteEcosystemInputs : DeleteEcosystem(id)
  \/ \E c \in Credentials : TokenAuth(c[1], c[2])
  \/ \E r \in 1..Len(requests), policy \in {"cascade", "detach"} : Respond(r, policy)
  \/ \E r \in 1..Len(requests) : Unauthenticated(r)

Spec == Init /\ [][Next]_vars

\* ------------------------------------------------------------------ claims
Calls == 1..Len(calls)

\* The requests calls[c] handed to the client.
RequestsOf(c) ==
  IF calls[c].issued = 0 THEN {}
  ELSE calls[c].request .. (calls[c].request + calls[c].issued - 1)

\* The call that issued request r.
CallOf(r) == CHOOSE c \in Calls : r \in RequestsOf(c)

Nullish(v) == v.type \in {"null", "undefined"}

\* The interface table: the variables each mutation is documented to carry,
\* bound to the wrapper's inputs.
DocumentedVariables(op, args) ==
  CASE op = "addProject" ->
         [ecosystemId |-> GetProp(args[1], "ecosystemId"), name |-> GetProp(args[1], "name"),
          title |-> GetProp(args[1], "title"), parentId |-> GetProp(args[1], "parentId")]
    [] op = "deleteProject" -> [id |-> args[1]]
    [] op = "moveProject" -> [fromProjectId |-> args[1], toProjectId |-> args[2]]
    [] op = "updateProject" -> [data |-> args[1], id |-> args[2]]
    [] op = "addEcosystem" ->
         [name |-> GetProp(args[1], "name"), title |-> GetProp(args[1], "title"),
          description |-> GetProp(args[1], "description")]
    [] op = "updateEcosystem" -> [data |-> args[1], id |-> args[2]]
    [] op = "deleteEcosystem" -> [id |-> args[1]]
    [] op = "tokenAuth" -> [username |-> args[1], password |-> args[2]]

AsDocumented(op, args, options) ==
  /\ DOMAIN options = {"mutation", "variables"}
  /\ options.mutation.operation = op
  /\ options.mutation.field = op
  /\ options.variables = DocumentedVariables(op, args)
  /\ \A k \in DOMAIN options.variables :
       /\ k \in DOMAIN options.mutation.arguments
       /\ options.mutation.arguments[k] = k
  /\ DOMAIN options.mutation.arguments = DOMAIN options.variables

\* C1: every request a wrapper hands to the client carries the documented
\* mutation of that wrapper and exactly the documented variables, each bound to
\* the corresponding input of the call.
C1_RequestAsDocumented ==
  \A c \in Calls : \A r \in RequestsOf(c) :
    AsDocumented(calls[c].op, calls[c].args, requests[r])

\* An addProject call with a form that holds more fields than are sent, and a
\* tokenAuth call, have both issued their requests.
C1_Witness ==
  \E c, d \in Calls :
    /\ calls[c].op = "addProject" /\ calls[c].args = <<ProjectForm>> /\ calls[c].issued = 1
    /\ calls[d].op = "tokenAuth" /\ calls[d].issued = 1

\* C2: what the caller of a wrapper observes is the state of the promise the
\* client returned for that call's request: pending until the client settles it,
\* then the same fulfilment value or the same rejection.
C2_OutcomeIsClients ==
  \A c \in Calls :
    calls[c].issued > 0 =>
      /\ calls[c].returned = calls[c].request
      /\ Observed(c) = promises[calls[c].request]

\* One caller holds a rejection from the backend and another a payload.
C2_Witness ==
  \E c, d \in Calls :
    /\ calls[c].issued = 1 /\ promises[calls[c].request].status = "rejected"
    /\ Observed(c).status = "rejected"
    /\ calls[d].issued = 1 /\ promises[calls[d].request].status = "fulfilled"
    /\ Observed(d).status = "fulfilled"

\* C3 as stated: the client has received as many requests as there were wrapper
\* invocations.
C3_OneRequestPerInvocation == Len(requests) = Len(calls)

ThrowsOnNullData(c) ==
  calls[c].op \in {"addProject", "addEcosystem"} /\ Nullish(calls[c].args[1])

\* C3 amended: an invocation issues exactly one request, except addProject and
\* addEcosystem called with null or undefined data, which issue none; whatever
\* the responses, no request is issued again.
C3_OneRequestUnlessThrown ==
  /\ \A c \in Calls : calls[c].issued = IF ThrowsOnNullData(c) THEN 0 ELSE 1
  /\ Len(requests) = Cardinality({c \in Calls : ~ThrowsOnNullData(c)})
  /\ Len(promises) = Len(requests)

\* After a call that threw and a call whose request was rejected, one request
\* has been issued for two invocations.
C3_Witness ==
  /\ Len(calls) = 2 /\ Len(requests) = 1
  /\ \E c \in Calls : calls[c].threw
  /\ promises[1].status = "rejected"

\* C8 as stated: whatever the input, the wrapper raises nothing and issues its
\* request.
C8_AlwaysIssues == \A c \in Calls : ~calls[c].threw /\ calls[c].issued = 1

\* C8 amended: a wrapper raises exactly when it is addProject or addEcosystem and
\* its data argument is null or undefined (a TypeError, before any request);
\* with every other input, missing, null or ill-typed values included, it
\* issues its request carrying those values as given.
C8_IssuesUnlessNullData ==
  \A c \in Calls :
    /\ calls[c].threw <=> ThrowsOnNullData(c)
    /\ calls[c].threw => calls[c].issued = 0 /\ Observed(c).status = "threw"
    /\ ~calls[c].threw =>
         /\ calls[c].issued = 1
         /\ requests[calls[c].request].variables =
              DocumentedVariables(calls[c].op, calls[c].args)

\* addEcosystem without its required name (and an ill-typed title) was sent and
\* came back as a validation failure; tokenAuth without credentials was sent.
C8_Witness ==
  \E c, d \in Calls :
    /\ calls[c].op = "addEcosystem" /\ calls[c].args = <<JSObject([title |-> JSNumber(7)])>>
    /\ calls[c].issued = 1 /\ Observed(c) = Rejected("validation failure")
    /\ calls[d].op = "tokenAuth" /\ calls[d].args = <<JSNumber(7), JSUndefined>>
    /\ calls[d].issued = 1

\* The backend id an id argument denotes.
IdOf(v) == CoerceVariable("ID", v).value

\* The backend answers request r in this step.
Answered(r) == promises[r] = Pending /\ promises'[r] # Pending

\* Everything but the parent of project from is as before.
MoveFrame(from) ==
  /\ ecosystems' = ecosystems
  /\ nextId' = nextId
  /\ {p.id : p \in projects'} = {p.id : p \in projects}
  /\ Cardinality(projects') = Cardinality(projects)
  /\ \A p \in projects : \E q \in projects' :
       /\ q.id = p.id /\ q.name = p.name /\ q.title = p.title
       /\ q.ecosystemId = p.ecosystemId
       /\ p.id # IdOf(from) => q.parentId = p.parentId

\* C4: the step in which the backend answers a moveProject(from, to) call leaves
\* every ecosystem and every field of every project as it was, except the
\* parentId of project from.
C4_MoveOnlyReparents ==
  [][\A r \in 1..Len(promises) :
       (Answered(r) /\ calls[CallOf(r)].op = "moveProject")
         => MoveFrame(calls[CallOf(r)].args[1])]_vars

\* moveProject("1", "2") has succeeded: project 1, a root at the start, now
\* hangs under project 2.
C4_Witness ==
  /\ \E c \in Calls :
       /\ calls[c].op = "moveProject" /\ calls[c].args = <<Str("1"), Str("2")>>
       /\ Observed(c).status = "fulfilled"
  /\ \E p \in projects : p.id = Str("1") /\ p.parentId = Str("2")

WellFormedToken(t, username) ==
  /\ t.type = "string"
  /\ Len(t.value) = 3
  /\ t.value[2] = username.value

\* C5: a settled tokenAuth(username, password) call holds a well-formed token
\* when the credentials are valid and a rejection without a token when they
\* are not; no call holds a token for credentials that are not valid.
C5_TokenIffValid ==
  \A c \in Calls :
    (calls[c].op = "tokenAuth" /\ Observed(c) # Pending) =>
      IF ValidCredentials(calls[c].args[1], calls[c].args[2])
      THEN /\ Observed(c).status = "fulfilled"
           /\ DOMAIN Observed(c) = {"status", "value"}
           /\ WellFormedToken(Observed(c).value.token, calls[c].args[1])
      ELSE /\ Observed(c).status = "rejected"
           /\ DOMAIN Observed(c) = {"status", "reason"}

\* One tokenAuth call with valid credentials holds its token and one with a
\* wrong password holds its rejection.
C5_Witness ==
  \E c, d \in Calls :
    /\ calls[c].op = "tokenAuth" /\ calls[c].args = <<Str("alice"), Str("secret")>>
    /\ Observed(c).status = "fulfilled"
    /\ calls[d].op = "tokenAuth" /\ calls[d].args = <<Str("alice"), Str("wrong")>>
    /\ Observed(d).status = "rejected"

RECURSIVE ReachesRoot(_, _)
\* Following parents from project id for at most fuel steps ends at a root.
ReachesRoot(id, fuel) ==
  /\ \E p \in projects : p.id = id
  /\ LET p == CHOOSE q \in projects : q.id = id
     IN \/ Nullish(p.parentId)
        \/ fuel > 0 /\ ReachesRoot(p.parentId, fuel - 1)

\* C6: every project with a parent has it among the projects of its own
\* ecosystem, and no project is its own ancestor.
C6_ParentInSameEcosystem ==
  /\ \A p \in projects :
       ~Nullish(p.parentId) =>
         \E q \in projects : q.id = p.parentId /\ q.ecosystemId = p.ecosystemId
  /\ \A p \in projects : ReachesRoot(p.id, Cardinality(projects))
  /\ \A p, q \in projects : p.id = q.id => p = q

\* A project was added under project 2 and project 2 was moved to the root.
C6_Witness ==
  /\ \E p \in projects : p.id = Str("5") /\ p.parentId = Str("2")
  /\ \E p \in projects : p.id = Str("2") /\ Nullish(p.parentId)
  /\ \E c \in Calls : calls[c].op = "moveProject" /\ Observed(c).status = "fulfilled"

\* C7: once a deleteEcosystem(id) call has succeeded, no project has that
\* ecosystem as its ecosystemId.
C7_NoOrphans ==
  \A c \in Calls :
    (calls[c].op = "deleteEcosystem" /\ Observed(c).status = "fulfilled") =>
      ~\E p \in projects : p.ecosystemId = IdOf(calls[c].args[1])

\* Ecosystem 1, which had projects, was deleted, and an addProject into it
\* afterwards was turned away.
C7_Witness ==
  \E c, d \in Calls :
    /\ c < d
    /\ calls[c].op = "deleteEcosystem" /\ calls[c].args = <<Str("1")>>
    /\ Observed(c).status = "fulfilled"
    /\ calls[d].op = "addProject" /\ calls[d].args = <<ProjectForm>>
    /\ Observed(d) = Rejected("not found")

\* The request content of a call: nothing but its operation and arguments decide it.
SameRequests(c, d) ==
  /\ calls[c].threw = calls[d].threw
  /\ calls[c].issued = calls[d].issued
  /\ \A i \in 0..(calls[c].issued - 1) :
       requests[calls[c].request + i] = requests[calls[d].request + i]

\* C9: a call that does not raise has its request with the client, pending, in
\* the step of its invocation; calls with the same arguments issue the same
\* request whatever else is in flight; a step settles at most one promise, only
\* a pending one, and changes no request, no other promise and no earlier call;
\* the caller of a call holds the promise of that call's own request.
C9_CallsIndependent ==
  /\ [](\A c, d \in Calls :
          /\ (calls[c].op = calls[d].op /\ calls[c].args = calls[d].args)
               => SameRequests(c, d)
          /\ ~calls[c].threw =>
               /\ calls[c].issued = 1
               /\ calls[c].returned = calls[c].request
               /\ CallOf(calls[c].request) = c)
  /\ [][/\ \A c \in Calls : calls'[c] = calls[c]
        /\ \A r \in 1..Len(requests) : requests'[r] = requests[r]
        /\ \A r \in 1..Len(promises) :
             promises'[r] # promises[r] =>
               /\ promises[r] = Pending
               /\ \A q \in 1..Len(promises) : q # r => promises'[q] = promises[q]
        /\ Len(calls') > Len(calls) =>
             /\ Len(calls') = Len(calls) + 1
             /\ \A r \in 1..Len(promises) : promises'[r] = promises[r]
             /\ ~calls'[Len(calls')].threw =>
                  /\ calls'[Len(calls')].request = Len(requests) + 1
                  /\ Len(requests') = Len(requests) + 1
                  /\ promises'[Len(requests')] = Pending]_vars

\* Two calls of the same wrapper with the same argument were in flight together,
\* and the later one was answered, with a failure, while the earlier is pending.
C9_Witness ==
  /\ Len(calls) = 2
  /\ calls[1].op = "deleteProject" /\ calls[2].op = "deleteProject"
  /\ calls[1].args = calls[2].args
  /\ promises[1] = Pending
  /\ promises[2].status = "rejected"

\* C10: a call leaves the caller's arguments as they were, hands the client
\* at most one request, which holds a mutation and its variables and nothing
\* else (no optimistic response, no cache update), and calls with the same
\* arguments make the same request whatever was called before.
C10_NoOtherEffect ==
  \A c \in Calls :
    /\ calls[c].argsAfter = calls[c].args
    /\ calls[c].issued <= 1
    /\ \A r \in RequestsOf(c) : DOMAIN requests[r] = {"mutation", "variables"}
    /\ \A d \in Calls :
         (calls[c].op = calls[d].op /\ calls[c].args = calls[d].args)
           => SameRequests(c, d)

\* updateEcosystem was called twice with the same data object and id, the
\* second time after the first had changed the backend.
C10_Witness ==
  /\ Len(calls) = 2
  /\ calls[1].op = "updateEcosystem" /\ calls[2].op = "updateEcosystem"
  /\ calls[1].args = calls[2].args
  /\ calls[1].args[1].type = "object"
  /\ promises[1].status = "fulfilled"
  /\ promises[2].status = "fulfilled"

====
